---- MODULE Spec2Model ----
(***************************************************************************)
(* Model of the subscription/discovery service of checkmp                  *)
(* (src/subscribe_service.py): the concurrent language enrichment and      *)
(* filtering engine (_enrich_and_filter_by_lang), the language resolver    *)
(* (LANGUAGE_MAP lookup) and the orchestrator operations built on them.    *)
(*                                                                         *)
(* Python strings are modelled as sequences of one-character strings, so   *)
(* that str.lower() is computed character by character and the empty       *)
(* string is the empty sequence.  A CJK character is written as its code   *)
(* point, "U+97E9" being the one character U+97E9.                         *)
(***************************************************************************)
EXTENDS Integers, Sequences, FiniteSets, TLC

(***************************************************************************)
(* Bounds of the model.                                                    *)
(***************************************************************************)
\* longest candidate batch handed to the engine
MaxItems == 6
\* length of the batches whose items are chosen freely; the items of a
\* longer batch repeat the item at this position
MaxVaried == 2
\* largest target_count
MaxTarget == 2
\* longest listing the backend returns to a hot-list request
MaxHotItems == 3
\* largest count of a hot-list request
MaxCount == 2
\* longest result list of a backend search
MaxResults == 2
\* longest language token built from TokenChars
MaxTokenLen == 2

(***************************************************************************)
(* Strings.                                                                *)
(***************************************************************************)
UpperToLower ==
  [c \in {"A","B","C","D","E","F","G","H","I","J","K","L","M",
          "N","O","P","Q","R","S","T","U","V","W","X","Y","Z"} |->
     CASE c = "A" -> "a" [] c = "B" -> "b" [] c = "C" -> "c" [] c = "D" -> "d"
       [] c = "E" -> "e" [] c = "F" -> "f" [] c = "G" -> "g" [] c = "H" -> "h"
       [] c = "I" -> "i" [] c = "J" -> "j" [] c = "K" -> "k" [] c = "L" -> "l"
       [] c = "M" -> "m" [] c = "N" -> "n" [] c = "O" -> "o" [] c = "P" -> "p"
       [] c = "Q" -> "q" [] c = "R" -> "r" [] c = "S" -> "s" [] c = "T" -> "t"
       [] c = "U" -> "u" [] c = "V" -> "v" [] c = "W" -> "w" [] c = "X" -> "x"
       [] c = "Y" -> "y" [] c = "Z" -> "z"]

\* str.lower(): cased characters map to lower case, all others are kept
LowerChar(c) == IF c \in DOMAIN UpperToLower THEN UpperToLower[c] ELSE c

Lower(s) == [k \in 1..Len(s) |-> LowerChar(s[k])]

ko == <<"k","o">>
ja == <<"j","a">>
zh == <<"z","h">>
en == <<"e","n">>
fr == <<"f","r">>
es == <<"e","s">>
th == <<"t","h">>

LANGUAGE_MAP ==
     (<<"U+97E9","U+8BED">> :> ko) @@ (<<"U+97E9">> :> ko)
  @@ (<<"k","o","r","e","a","n">> :> ko) @@ (ko :> ko)
  @@ (<<"U+65E5","U+8BED">> :> ja) @@ (<<"U+65E5">> :> ja)
  @@ (<<"j","a","p","a","n","e","s","e">> :> ja) @@ (ja :> ja)
  @@ (<<"U+4E2D","U+6587">> :> zh) @@ (<<"U+4E2D">> :> zh)
  @@ (<<"c","h","i","n","e","s","e">> :> zh) @@ (zh :> zh)
  @@ (<<"U+82F1","U+8BED">> :> en) @@ (<<"U+82F1">> :> en)
  @@ (<<"e","n","g","l","i","s","h">> :> en) @@ (en :> en)
  @@ (<<"U+6CD5","U+8BED">> :> fr) @@ (<<"U+6CD5">> :> fr)
  @@ (<<"f","r","e","n","c","h">> :> fr) @@ (fr :> fr)
  @@ (<<"U+897F","U+73ED","U+7259","U+8BED">> :> es)
  @@ (<<"s","p","a","n","i","s","h">> :> es) @@ (es :> es)
  @@ (<<"U+6CF0","U+8BED">> :> th) @@ (<<"U+6CF0">> :> th)
  @@ (<<"t","h","a","i">> :> th) @@ (th :> th)

Min(a, b) == IF a <= b THEN a ELSE b

\* dict.get(key, default)
DictGet(d, key, default) == IF key \in DOMAIN d THEN d[key] ELSE default

\* LANGUAGE_MAP.get(lang, lang.lower()): the key is not lower-cased
Resolve_KeyAsGiven(token) == DictGet(LANGUAGE_MAP, token, Lower(token))

\* lang_code = LANGUAGE_MAP.get(lang.lower(), lang.lower())
Resolve(token) == DictGet(LANGUAGE_MAP, Lower(token), Lower(token))

(***************************************************************************)
(* Candidate items and the upstream detail call.                           *)
(* An item carries its tmdb_id (0: absent) and what the backend's          *)
(* get_media_detail would answer for it: "raise" (any request failure),    *)
(* "null" (a falsy body) or a detail whose original_language is lang.      *)
(***************************************************************************)
Item(id, status, l) == [tmdb_id |-> id, status |-> status, lang |-> l]

ItemPool == { Item(1, "ok", ko), Item(1, "ok", ja), Item(1, "raise", <<>>),
              Item(1, "null", <<>>), Item(0, "ok", ko) }

\* SubscribeService._get_language_for_item
get_language_for_item(item) ==
  IF item.tmdb_id = 0 THEN <<>>
  ELSE IF item.status = "raise" THEN <<>>
  ELSE IF item.status = "null" THEN <<>>
  ELSE item.lang

\* whether _get_language_for_item reaches client.get_media_detail
IssuesDetailRequest(item) == item.tmdb_id # 0

\* the items of the long batches
CorePool == { Item(1, "ok", ko), Item(1, "raise", <<>>) }

\* every batch of at most MaxVaried items
ShortBatches == UNION { [1..n -> ItemPool] : n \in 0..MaxVaried }

\* batches of up to MaxItems items, more than the pool has threads: the
\* items after position MaxVaried repeat the item at that position
LongBatches ==
  { b \in UNION { [1..n -> CorePool] : n \in (MaxVaried + 1)..MaxItems } :
      \A k \in 1..Len(b) : k > MaxVaried => b[k] = b[MaxVaried] }

Batches == ShortBatches \cup LongBatches

Queries == { <<"K","o">>, <<>> }

Targets == (0 - 1)..MaxTarget

\* the long batches are run with a query that resolves through the table
\* and a target_count >= 0
QueriesFor(b) == IF Len(b) <= MaxVaried THEN Queries ELSE { <<"K","o">> }

TargetsFor(b) == IF Len(b) <= MaxVaried THEN Targets ELSE 0..MaxTarget

\* language tokens a caller may pass: every string of at most MaxTokenLen
\* of these characters, and some longer names
TokenChars == { "k", "K", "o", "O", "x", "U+97E9", "U+8BED" }

Tokens ==
  UNION { [1..n -> TokenChars] : n \in 0..MaxTokenLen }
    \cup { <<"K","o","r","e","a","n">>, <<"k","o","r","e","a","n">>,
           <<"J","A","P","A","N","E","S","E">>, <<"T","h","a","i">>,
           <<"G","e","r","m","a","n">> }

\* a pool one thread larger
max_workers_6 == 5 + 1

max_workers == 5

(***************************************************************************)
(* Optional values (None or a value) are sequences of length 0 or 1.       *)
(* Media types are atoms: MOVIE is the string "电影" of the source, TV is  *)
(* "电视剧"; OTHER_TYPE is any other string.                               *)
(***************************************************************************)
None == <<>>
Some(v) == <<v>>
MOVIE == "movie"
TV == "tv"
OTHER_TYPE == "other"

\* Python truthiness of an optional string
TruthyStr(opt) == opt # None /\ opt[1] # <<>>

VARIABLES
  items,         \* the input batch (sequence of items)
  lang,          \* the language query string
  target_count,
  lang_code,     \* local of the engine
  results,       \* local of the engine: sequence of item positions
  pc,            \* position of the calling thread
  submitted,     \* number of executor.submit calls made
  fstate,        \* per future: "new", "pending", "running", "finished", "cancelled"
  fresult,       \* per future: the value the task returned
  stamp,         \* per item: <<v>> when item["_original_language"] = v, else <<>>
  yielded,       \* futures as_completed has handed to the loop
  ci,            \* position of the cancel loop of line 74
  fetches,       \* per item: calls of _get_language_for_item made for it
  req,           \* the service call being executed and its arguments
  upstream,      \* the listing, search, detail and subscribe calls made so far
  frame,         \* locals of subscribe_by_tmdbid
  invoked,       \* argument lists of the calls of subscribe_by_tmdbid
  ret            \* what the service call returned or raised

engineVars == <<items, lang, target_count, lang_code, results, submitted,
                fstate, fresult, stamp, yielded, ci, fetches>>
orchVars == <<req, upstream, frame, invoked, ret>>
vars == <<engineVars, pc, orchVars>>

N == Len(items)
Idx == 1..N

Running == { k \in Idx : fstate[k] = "running" }
Pending == { k \in Idx : fstate[k] = "pending" }

NoRet == [status |-> "none"]
Raised == [status |-> "raise"]
Returned(v) == [status |-> "ok", value |-> v]

InitEngineState ==
  /\ lang_code = <<>>
  /\ results = <<>>
  /\ submitted = 0
  /\ fstate = [k \in Idx |-> "new"]
  /\ fresult = [k \in Idx |-> <<>>]
  /\ stamp = [k \in Idx |-> <<>>]
  /\ yielded = {}
  /\ ci = 0
  /\ fetches = [k \in Idx |-> 0]

InitOrchState ==
  /\ upstream = <<>>
  /\ frame = [fn |-> "none"]
  /\ invoked = <<>>
  /\ ret = NoRet

\* a direct call _enrich_and_filter_by_lang(items, lang, target_count)
Init ==
  /\ items \in Batches
  /\ lang \in QueriesFor(items)
  /\ target_count \in TargetsFor(items)
  /\ pc = "enter"
  /\ req = [op |-> "engine"]
  /\ InitEngineState
  /\ InitOrchState

\* a direct call of the engine with any language token, on a batch of at
\* most one item and for one match
InitResolve ==
  /\ items \in { b \in ShortBatches : Len(b) <= 1 /\ \A k \in 1..Len(b) : b[k] \in CorePool }
  /\ lang \in Tokens
  /\ target_count = 1
  /\ pc = "enter"
  /\ req = [op |-> "engine"]
  /\ InitEngineState
  /\ InitOrchState

(***************************************************************************)
(* The engine: _enrich_and_filter_by_lang.                                 *)
(***************************************************************************)
\* lines 55-57
Enter ==
  /\ pc = "enter"
  /\ lang_code' = Resolve(lang)
  /\ results' = <<>>
  /\ pc' = "submit"
  /\ UNCHANGED <<items, lang, target_count, submitted, fstate, fresult,
                 stamp, yielded, ci, fetches, orchVars>>

\* lines 61-64: one executor.submit per item, in input order
Submit ==
  /\ pc = "submit"
  /\ submitted < N
  /\ submitted' = submitted + 1
  /\ fstate' = [fstate EXCEPT ![submitted + 1] = "pending"]
  /\ UNCHANGED <<items, lang, target_count, lang_code, results, pc,
                 fresult, stamp, yielded, ci, fetches, orchVars>>

\* line 65: the dict is complete, as_completed starts
SubmitDone ==
  /\ pc = "submit"
  /\ submitted = N
  /\ pc' = "as_completed"
  /\ UNCHANGED <<engineVars, orchVars>>

\* a pool thread takes the oldest queued work item (cancelled ones are
\* skipped) and calls _get_language_for_item; at most max_workers threads
WorkerStart(k) ==
  /\ fstate[k] = "pending"
  /\ \A j \in 1..(k - 1) : fstate[j] # "pending"
  /\ Cardinality(Running) < max_workers
  /\ fstate' = [fstate EXCEPT ![k] = "running"]
  /\ fetches' = [fetches EXCEPT ![k] = @ + 1]
  /\ UNCHANGED <<items, lang, target_count, lang_code, results, pc,
                 submitted, fresult, stamp, yielded, ci, orchVars>>

\* the task returns and its future is set
WorkerFinish(k) ==
  /\ fstate[k] = "running"
  /\ fstate' = [fstate EXCEPT ![k] = "finished"]
  /\ fresult' = [fresult EXCEPT ![k] = get_language_for_item(items[k])]
  /\ UNCHANGED <<items, lang, target_count, lang_code, results, pc,
                 submitted, stamp, yielded, ci, fetches, orchVars>>

\* a filter that lets every completed item through
Matches_NoFilter(item_lang, code) == TRUE

\* line 70
Matches(item_lang, code) == item_lang = code

\* results.insert(0, item) in place of results.append(item)
AppendResult_AtFront(res, k) == <<k>> \o res

\* line 71
AppendResult(res, k) == Append(res, k)

\* a loop without the early exit
TargetReached_Never(res, tc) == FALSE

\* line 72
TargetReached(res, tc) == Len(res) >= tc

\* a loop that stamps every finished item, consumed or not
Stamped_AllFinished(st, k) ==
  [j \in Idx |-> IF fstate[j] = "finished" THEN <<fresult[j]>> ELSE st[j]]

\* lines 68-69: item["_original_language"] = future.result()
Stamped(st, k) == [st EXCEPT ![k] = <<fresult[k]>>]

\* lines 65-76: one iteration of the loop over as_completed
Consume(k) ==
  /\ pc = "as_completed"
  /\ fstate[k] = "finished"
  /\ k \notin yielded
  /\ yielded' = yielded \cup {k}
  /\ stamp' = Stamped(stamp, k)
  /\ IF Matches(fresult[k], lang_code)
       THEN /\ results' = AppendResult(results, k)
            /\ IF TargetReached(results', target_count)
                 THEN pc' = "cancel" /\ ci' = 1
                 ELSE pc' = pc /\ ci' = ci
       ELSE UNCHANGED <<results, pc, ci>>
  /\ UNCHANGED <<items, lang, target_count, lang_code, submitted, fstate,
                 fresult, fetches, orchVars>>

\* lines 74-75: f.cancel() on the next future; only a queued one is cancelled
Cancel ==
  /\ pc = "cancel"
  /\ ci <= N
  /\ fstate' = [fstate EXCEPT ![ci] = IF @ = "pending" THEN "cancelled" ELSE @]
  /\ ci' = ci + 1
  /\ UNCHANGED <<items, lang, target_count, lang_code, results, pc,
                 submitted, fresult, stamp, yielded, fetches, orchVars>>

\* line 76
Break ==
  /\ pc = "cancel"
  /\ ci > N
  /\ pc' = "shutdown"
  /\ UNCHANGED <<engineVars, orchVars>>

\* line 65: as_completed is exhausted
LoopEnd ==
  /\ pc = "as_completed"
  /\ yielded = Idx
  /\ pc' = "shutdown"
  /\ UNCHANGED <<engineVars, orchVars>>

\* a shutdown that does not wait: executor.shutdown(wait=False)
Shutdown_NoWait ==
  /\ pc = "shutdown"
  /\ pc' = "return"
  /\ UNCHANGED <<engineVars, orchVars>>

\* a shutdown that waits until every future has a result, cancelled ones too
Shutdown_AwaitsResults ==
  /\ pc = "shutdown"
  /\ \A k \in Idx : fstate[k] = "finished"
  /\ pc' = "return"
  /\ UNCHANGED <<engineVars, orchVars>>

\* line 60 (__exit__): executor.shutdown(wait=True), then line 80
Shutdown ==
  /\ pc = "shutdown"
  /\ Running = {}
  /\ Pending = {}
  /\ pc' = "return"
  /\ UNCHANGED <<engineVars, orchVars>>

Workers ==
  \/ \E k \in Idx : WorkerStart(k)
  \/ \E k \in Idx : WorkerFinish(k)

Engine ==
  \/ Enter
  \/ Submit
  \/ SubmitDone
  \/ \E k \in Idx : Consume(k)
  \/ Cancel
  \/ Break
  \/ LoopEnd
  \/ Shutdown

Next == Engine \/ Workers

Spec == Init /\ [][Next]_vars

SpecResolve == InitResolve /\ [][Next]_vars

\* the calling thread and the pool threads keep running: a step of the
\* engine that stays possible is taken, a queued task is started when a
\* thread is free, and a started lookup returns (its request has a timeout)
SpecLive == Init /\ [][Next]_vars /\ WF_vars(Engine) /\ WF_vars(Workers)

(***************************************************************************)
(* Hot lists: get_hot_tv and get_hot_movies.  The page, genre and rating   *)
(* arguments are passed through to the backend and are left out.  The      *)
(* backend is free in what it answers: any batch, or a failure.            *)
(***************************************************************************)
HotOps == { "get_hot_tv", "get_hot_movies" }

\* lines 102 and 129: the stype argument
Stype(op) == IF op = "get_hot_tv" THEN TV ELSE MOVIE

\* a listing that is not oversampled
FetchCount_NoOversampling(count) == count

\* lines 100 and 127
FetchCount(count) == count * 5

HotBatches == { b \in Batches : Len(b) <= MaxHotItems }

HotQueries == { None, Some(<<>>), Some(<<"K","o">>), Some(ja) }

\* SubscribeService._format_media: the item and its language field
FormatMedia(k) ==
  [item |-> k,
   language |-> IF stamp[k] # <<>> /\ stamp[k][1] # <<>> THEN stamp[k][1] ELSE <<>>]

ListingCall(op, cnt, outcome) ==
  [api |-> "get_popular_subscribes", stype |-> Stype(op), count |-> cnt,
   outcome |-> outcome]

\* the engine state for a batch the engine has not yet seen
EngineFresh(b) ==
  /\ items' = b
  /\ lang_code' = <<>>
  /\ results' = <<>>
  /\ submitted' = 0
  /\ fstate' = [k \in 1..Len(b) |-> "new"]
  /\ fresult' = [k \in 1..Len(b) |-> <<>>]
  /\ stamp' = [k \in 1..Len(b) |-> <<>>]
  /\ yielded' = {}
  /\ ci' = 0
  /\ fetches' = [k \in 1..Len(b) |-> 0]

InitHot ==
  /\ req \in [op : HotOps, count : 0..MaxCount, lang : HotQueries]
  /\ pc = "hot_enter"
  /\ items = <<>>
  /\ lang = <<>>
  /\ target_count = 0
  /\ InitEngineState
  /\ InitOrchState

\* lines 98-104 and 126-131: the listing call of the filtered branch returns
HotListFiltered(b) ==
  /\ pc = "hot_enter"
  /\ TruthyStr(req.lang)
  /\ upstream' = Append(upstream, ListingCall(req.op, FetchCount(req.count), "ok"))
  /\ EngineFresh(b)
  /\ lang' = req.lang[1]
  /\ target_count' = req.count
  /\ pc' = "enter"
  /\ UNCHANGED <<req, frame, invoked, ret>>

\* lines 106-110 and 133-137: the plain branch
HotListPlain(b) ==
  /\ pc = "hot_enter"
  /\ ~TruthyStr(req.lang)
  /\ upstream' = Append(upstream, ListingCall(req.op, req.count, "ok"))
  /\ EngineFresh(b)
  /\ ret' = Returned([k \in 1..Len(b) |-> [item |-> k, language |-> <<>>]])
  /\ pc' = "hot_return"
  /\ UNCHANGED <<lang, target_count, req, frame, invoked>>

\* the listing call of either branch raises, and so does the method
HotListRaise ==
  /\ pc = "hot_enter"
  /\ upstream' = Append(upstream,
        ListingCall(req.op,
                    IF TruthyStr(req.lang) THEN FetchCount(req.count) ELSE req.count,
                    "raise"))
  /\ ret' = Raised
  /\ pc' = "hot_raise"
  /\ UNCHANGED <<engineVars, req, frame, invoked>>

\* lines 105 and 132: the engine has returned
HotFormat ==
  /\ pc = "return"
  /\ req.op \in HotOps
  /\ ret' = Returned([p \in 1..Len(results) |-> FormatMedia(results[p])])
  /\ pc' = "hot_return"
  /\ UNCHANGED <<engineVars, req, upstream, frame, invoked>>

Hot ==
  \/ \E b \in HotBatches : HotListFiltered(b)
  \/ \E b \in HotBatches : HotListPlain(b)
  \/ HotListRaise
  \/ HotFormat

NextHot == Hot \/ Engine \/ Workers

SpecHot == InitHot /\ [][NextHot]_vars

(***************************************************************************)
(* Subscriptions: subscribe_by_tmdbid and subscribe_by_title.              *)
(* A dict is a function from its keys; the texts of titles, posters and    *)
(* overviews are atoms.  The metadata provider and the backend are free in *)
(* what they answer.                                                       *)
(***************************************************************************)
\* dict[key] = value
DictSet(d, key, value) == (key :> value) @@ d

\* dict.setdefault(key, value)
SetDefault(d, key, value) == IF key \in DOMAIN d THEN d ELSE d @@ (key :> value)

\* s[:4]
Prefix4(s) == SubSeq(s, 1, Min(4, Len(s)))

\* str(tmdbid)
Str(n) == [str |-> n]

TmdbIds == { 1, 2 }
MediaTypes == { MOVIE, TV, OTHER_TYPE }
Seasons == { None, Some(0), Some(1) }

Date2021 == <<"2","0","2","1","-","0","9","-","1","7">>

\* what TMDBClient.tv_detail / movie_detail return (_format_tv, _format_movie):
\* the date is null, empty or a date
DetailOf(media_type, date) ==
  LET common == [title |-> "T", poster |-> "P", backdrop |-> "B",
                 rating |-> 8, overview |-> "O"]
  IN  IF media_type = MOVIE
        THEN ("release_date" :> date) @@ common
        ELSE ("first_air_date" :> date) @@ common

DetailDates == { None, Some(<<>>), Some(Date2021) }

\* one result of the backend's search_media: tmdb_id 0 is a missing id, the
\* type may be missing
SearchResult(id, type) ==
  [tmdb_id |-> id, type |-> type, title |-> "S", year |-> "Y",
   poster_path |-> "SP", backdrop_path |-> "SB", vote_average |-> 7,
   overview |-> "SO"]

SearchPool == { SearchResult(id, type) : id \in {0, 1}, type \in {None, Some(MOVIE)} }

SearchResults == UNION { [1..n -> SearchPool] : n \in 0..MaxResults }

CallArgs(tmdbid, media_type, season) ==
  [fn |-> "args", tmdbid |-> tmdbid, media_type |-> media_type, season |-> season]

DirectRequests ==
  [op : {"subscribe_by_tmdbid"}, tmdbid : TmdbIds, media_type : MediaTypes,
   season : Seasons]

\* media_type is None, the empty string or a type
TitleRequests ==
  [op : {"subscribe_by_title"}, title : {"Q"},
   media_type : {None, Some(""), Some(MOVIE), Some(TV)}, season : Seasons]

InitSub ==
  /\ req \in DirectRequests \cup TitleRequests
  /\ pc = IF req.op = "subscribe_by_tmdbid" THEN "sub_enter" ELSE "title_enter"
  /\ items = <<>>
  /\ lang = <<>>
  /\ target_count = 0
  /\ InitEngineState
  /\ upstream = <<>>
  /\ frame = IF req.op = "subscribe_by_tmdbid"
               THEN CallArgs(req.tmdbid, req.media_type, req.season)
               ELSE [fn |-> "none"]
  /\ invoked = <<>>
  /\ ret = NoRet

\* lines 158-161
SubEnter ==
  /\ pc = "sub_enter"
  /\ invoked' = Append(invoked, [tmdbid |-> frame.tmdbid,
                                 media_type |-> frame.media_type,
                                 season |-> frame.season])
  /\ frame' = [fn |-> "subscribe_by_tmdbid", tmdbid |-> frame.tmdbid,
               media_type |-> frame.media_type, season |-> frame.season,
               sub_data |-> ("tmdbid" :> frame.tmdbid) @@ ("type" :> frame.media_type)]
  /\ pc' = "sub_detail"
  /\ UNCHANGED <<engineVars, req, upstream, ret>>

\* lines 165-168
DetailApi(media_type) == IF media_type = MOVIE THEN "tmdb.movie_detail" ELSE "tmdb.tv_detail"

DetailCall(outcome) ==
  [api |-> DetailApi(frame.media_type), by |-> "subscribe_by_tmdbid",
   tmdb_id |-> frame.tmdbid, outcome |-> outcome]

\* lines 173-174
YearOf(detail) ==
  LET first == DictGet(detail, "first_air_date", None)
      release == DictGet(detail, "release_date", None)
      date_str == IF first # None /\ first[1] # <<>> THEN first[1]
                  ELSE IF release # None /\ release[1] # <<>> THEN release[1]
                  ELSE <<>>
  IN  IF date_str # <<>> THEN Prefix4(date_str) ELSE <<>>

\* lines 170-178
FillFromDetail(sub, detail) ==
  DictSet(DictSet(DictSet(DictSet(DictSet(DictSet(sub,
    "name", DictGet(detail, "title", "")),
    "year", YearOf(detail)),
    "poster", DictGet(detail, "poster", "")),
    "backdrop", DictGet(detail, "backdrop", "")),
    "vote", DictGet(detail, "rating", 0)),
    "description", DictGet(detail, "overview", ""))

\* lines 164-178: the provider answers
SubDetailOk(date) ==
  /\ pc = "sub_detail"
  /\ upstream' = Append(upstream, DetailCall("ok"))
  /\ frame' = [frame EXCEPT !.sub_data =
                  FillFromDetail(@, DetailOf(frame.media_type, date))]
  /\ pc' = "sub_submit"
  /\ UNCHANGED <<engineVars, req, invoked, ret>>

\* line 179: the provider call raises
SubDetailRaise ==
  /\ pc = "sub_detail"
  /\ upstream' = Append(upstream, DetailCall("raise"))
  /\ pc' = "sub_fallback"
  /\ UNCHANGED <<engineVars, req, frame, invoked, ret>>

\* lines 185-190
FillFromResult(sub, r) ==
  SetDefault(SetDefault(SetDefault(SetDefault(SetDefault(SetDefault(sub,
    "name", r.title),
    "year", r.year),
    "poster", r.poster_path),
    "backdrop", r.backdrop_path),
    "vote", r.vote_average),
    "description", r.overview)

\* a loop that takes the first result without comparing the ids
FallbackFill_FirstResult(sub, rs, tmdbid) ==
  IF rs = <<>> THEN sub ELSE FillFromResult(sub, rs[1])

\* lines 183-191: the first result with the wanted id fills the record
FallbackFill(sub, rs, tmdbid) ==
  LET hits == { k \in 1..Len(rs) : rs[k].tmdb_id = tmdbid }
  IN  IF hits = {} THEN sub
      ELSE FillFromResult(sub, rs[CHOOSE k \in hits : \A j \in hits : k <= j])

SearchCall(by, query, outcome, rs) ==
  [api |-> "search_media", by |-> by, title |-> query, outcome |-> outcome,
   results |-> rs]

\* line 182
FallbackQuery == DictGet(frame.sub_data, "name", Str(frame.tmdbid))

\* lines 181-191: the fallback search answers
SubFallbackOk(rs) ==
  /\ pc = "sub_fallback"
  /\ upstream' = Append(upstream,
        SearchCall("subscribe_by_tmdbid", FallbackQuery, "ok", rs))
  /\ frame' = [frame EXCEPT !.sub_data = FallbackFill(@, rs, frame.tmdbid)]
  /\ pc' = "sub_submit"
  /\ UNCHANGED <<engineVars, req, invoked, ret>>

\* lines 192-193: the fallback search raises
SubFallbackRaise ==
  /\ pc = "sub_fallback"
  /\ upstream' = Append(upstream,
        SearchCall("subscribe_by_tmdbid", FallbackQuery, "raise", <<>>))
  /\ pc' = "sub_submit"
  /\ UNCHANGED <<engineVars, req, frame, invoked, ret>>

\* the season is attached whatever the type
WithSeason_AnyType(sub, season, media_type) ==
  IF season # None THEN DictSet(sub, "season", season[1]) ELSE sub

\* lines 195-196
WithSeason(sub, season, media_type) ==
  IF season # None /\ media_type = TV THEN DictSet(sub, "season", season[1]) ELSE sub

\* lines 195-198: the record is submitted; add_subscribe answers or raises
SubSubmit(outcome) ==
  LET data == WithSeason(frame.sub_data, frame.season, frame.media_type) IN
  /\ pc = "sub_submit"
  /\ frame' = [frame EXCEPT !.sub_data = data]
  /\ upstream' = Append(upstream,
        [api |-> "add_subscribe", by |-> "subscribe_by_tmdbid", data |-> data,
         outcome |-> outcome])
  /\ IF outcome = "ok"
       THEN ret' = Returned([success |-> TRUE]) /\ pc' = "sub_return"
       ELSE ret' = Raised /\ pc' = "sub_raise"
  /\ UNCHANGED <<engineVars, req, invoked>>

\* the result's type in every case
DelegatedType_FromResult(media_type, media) ==
  IF media.type # None THEN media.type[1] ELSE TV

\* line 218: mtype = media_type or media.get("type", "电视剧")
DelegatedType(media_type, media) ==
  IF media_type # None /\ media_type[1] # "" THEN media_type[1]
  ELSE IF media.type # None THEN media.type[1] ELSE TV

\* lines 209-219: the title search answers
TitleSearchOk(rs) ==
  /\ pc = "title_enter"
  /\ upstream' = Append(upstream,
        SearchCall("subscribe_by_title", req.title, "ok", rs))
  /\ IF rs = <<>>
       THEN /\ ret' = Returned([success |-> FALSE, message |-> "not found"])
            /\ pc' = "title_return"
            /\ frame' = frame
       ELSE IF rs[1].tmdb_id = 0
         THEN /\ ret' = Returned([success |-> FALSE, message |-> "no tmdb id"])
              /\ pc' = "title_return"
              /\ frame' = frame
         ELSE /\ ret' = ret
              /\ pc' = "sub_enter"
              /\ frame' = CallArgs(rs[1].tmdb_id,
                                   DelegatedType(req.media_type, rs[1]),
                                   req.season)
  /\ UNCHANGED <<engineVars, req, invoked>>

\* line 209: the title search raises, and so does the method
TitleSearchRaise ==
  /\ pc = "title_enter"
  /\ upstream' = Append(upstream,
        SearchCall("subscribe_by_title", req.title, "raise", <<>>))
  /\ ret' = Raised
  /\ pc' = "title_raise"
  /\ UNCHANGED <<engineVars, req, frame, invoked>>

NextSub ==
  \/ SubEnter
  \/ \E date \in DetailDates : SubDetailOk(date)
  \/ SubDetailRaise
  \/ \E rs \in SearchResults : SubFallbackOk(rs)
  \/ SubFallbackRaise
  \/ \E o \in {"ok", "raise"} : SubSubmit(o)
  \/ \E rs \in SearchResults : TitleSearchOk(rs)
  \/ TitleSearchRaise

SpecSub == InitSub /\ [][NextSub]_vars

(***************************************************************************)
(* check_subscribe and get_stats of the service, and the endpoints         *)
(* GET /api/subscribe/check and POST /api/subscribe of main.py.  An        *)
(* endpoint's answer is kept in ret as an HTTP response.  A request that   *)
(* an endpoint hands to the service keeps the endpoint's request in its    *)
(* field http.                                                             *)
(***************************************************************************)
Http(code, body) == [status |-> "http", code |-> code, body |-> body]

\* Python truthiness of an optional dict (None, {} or a dict)
TruthyDict(opt) == opt # None /\ opt[1] # <<>>

\* what the backend answers to get_subscribe_by_mediaid: null, {} or a
\* subscription
SubscriptionValues == { None, Some(<<>>), Some([id |-> 7, state |-> "R"]) }

CheckRequests ==
  [op : {"GET /api/subscribe/check"}, tmdb_id : TmdbIds, season : {None, Some(1)}]

\* tmdb_id and title are None, falsy or usable
PostRequests ==
  [op : {"POST /api/subscribe"}, tmdb_id : {None, Some(0), Some(1)},
   title : {None, Some(""), Some("Q")}, type : {MOVIE, TV},
   season : {None, Some(1)}]

StatsRequests == [op : {"get_stats"}]

\* what get_statistic answers: null, {} or the counts
StatisticValues ==
  { None, Some(<<>>),
    Some([movie_count |-> 3, tv_count |-> 2, episode_count |-> 9, user_count |-> 1]) }

\* what get_storage and get_downloader_info answer: null or a dict
InfoValues == { None, Some([total |-> 5]) }

InitApi ==
  /\ req \in CheckRequests \cup PostRequests \cup StatsRequests
  /\ pc = CASE req.op = "GET /api/subscribe/check" -> "check_enter"
            [] req.op = "POST /api/subscribe" -> "post_enter"
            [] OTHER -> "stats_enter"
  /\ items = <<>>
  /\ lang = <<>>
  /\ target_count = 0
  /\ InitEngineState
  /\ InitOrchState

\* an except clause missing: the failure of the lookup propagates
CheckResult_Propagate(outcome, value) ==
  IF outcome = "raise" THEN Raised ELSE Returned(value)

\* subscribe_service.py lines 228-231
CheckResult(outcome, value) ==
  IF outcome = "raise" THEN Returned(None) ELSE Returned(value)

\* subscribe_service.py lines 225-231, called from main.py line 214
CheckLookup(outcome, value) ==
  /\ pc = "check_enter"
  /\ upstream' = Append(upstream,
        [api |-> "get_subscribe_by_mediaid", by |-> "check_subscribe",
         mediaid |-> [tmdb |-> req.tmdb_id], season |-> req.season,
         outcome |-> outcome, value |-> value])
  /\ ret' = CheckResult(outcome, value)
  /\ pc' = "check_return"
  /\ UNCHANGED <<engineVars, req, frame, invoked>>

\* main.py lines 214-217; the endpoint has no handler of its own, what the
\* service raises becomes a 500
CheckRespond ==
  /\ pc = "check_return"
  /\ ret' = IF ret.status = "raise" THEN Http(500, "error")
            ELSE IF TruthyDict(ret.value)
              THEN Http(200, [subscribed |-> TRUE, detail |-> ret.value[1]])
              ELSE Http(200, [subscribed |-> FALSE])
  /\ pc' = "http_done"
  /\ UNCHANGED <<engineVars, req, upstream, frame, invoked>>

\* a handler without the clause "except HTTPException: raise"
ErrorResponse_AllGeneric(exc) == Http(500, "error")

\* main.py lines 193-196: an HTTPException passes, anything else becomes a 500
ErrorResponse(exc) ==
  IF exc = "HTTPException 400" THEN Http(400, "tmdb_id or title required")
  ELSE Http(500, "error")

\* main.py lines 178-192
PostDispatch ==
  /\ pc = "post_enter"
  /\ IF req.tmdb_id # None /\ req.tmdb_id[1] # 0
       THEN /\ req' = [op |-> "subscribe_by_tmdbid", tmdbid |-> req.tmdb_id[1],
                       media_type |-> req.type, season |-> req.season,
                       http |-> req]
            /\ frame' = CallArgs(req.tmdb_id[1], req.type, req.season)
            /\ pc' = "sub_enter"
            /\ ret' = ret
       ELSE IF req.title # None /\ req.title[1] # ""
         THEN /\ req' = [op |-> "subscribe_by_title", title |-> req.title[1],
                         media_type |-> Some(req.type), season |-> req.season,
                         http |-> req]
              /\ frame' = frame
              /\ pc' = "title_enter"
              /\ ret' = ret
         ELSE /\ req' = req
              /\ frame' = frame
              /\ pc' = "http_done"
              /\ ret' = ErrorResponse("HTTPException 400")
  /\ UNCHANGED <<engineVars, upstream, invoked>>

\* main.py lines 179-196: the service call returns or raises
PostRespond ==
  /\ "http" \in DOMAIN req
  /\ pc \in {"sub_return", "sub_raise", "title_return", "title_raise"}
  /\ ret' = IF ret.status = "raise" THEN ErrorResponse("Exception")
            ELSE Http(200, ret.value)
  /\ pc' = "http_done"
  /\ UNCHANGED <<engineVars, req, upstream, frame, invoked>>

StatsCall(api, outcome, value) ==
  [api |-> api, by |-> "get_stats", outcome |-> outcome, value |-> value]

\* line 244: stat = self.client.get_statistic() or {}
StatsStatistic(outcome, value) ==
  /\ pc = "stats_enter"
  /\ upstream' = Append(upstream, StatsCall("get_statistic", outcome, value))
  /\ IF outcome = "raise"
       THEN /\ ret' = Raised
            /\ pc' = "stats_raise"
            /\ frame' = frame
       ELSE /\ ret' = ret
            /\ pc' = "stats_storage"
            /\ frame' = [fn |-> "get_stats",
                         stat |-> IF TruthyDict(value) THEN value[1] ELSE <<>>,
                         storage |-> None, downloader |-> None]
  /\ UNCHANGED <<engineVars, req, invoked>>

\* a storage call outside its try block
AfterStorage_Unguarded(outcome) ==
  IF outcome = "raise" THEN "stats_raise" ELSE "stats_downloader"

\* lines 247-250: whatever the storage call does, the downloader call follows
AfterStorage(outcome) == "stats_downloader"

\* lines 245-250
StatsStorage(outcome, value) ==
  /\ pc = "stats_storage"
  /\ upstream' = Append(upstream, StatsCall("get_storage", outcome, value))
  /\ frame' = [frame EXCEPT !.storage = IF outcome = "raise" THEN None ELSE value]
  /\ pc' = AfterStorage(outcome)
  /\ ret' = IF pc' = "stats_raise" THEN Raised ELSE ret
  /\ UNCHANGED <<engineVars, req, invoked>>

\* lines 256-265
Summary(stat, storage, downloader) ==
  [media |-> [movie_count |-> DictGet(stat, "movie_count", 0),
              tv_count |-> DictGet(stat, "tv_count", 0),
              episode_count |-> DictGet(stat, "episode_count", 0),
              user_count |-> DictGet(stat, "user_count", 0)],
   storage |-> storage,
   downloader |-> downloader]

\* lines 251-265
StatsDownloader(outcome, value) ==
  LET downloader == IF outcome = "raise" THEN None ELSE value IN
  /\ pc = "stats_downloader"
  /\ upstream' = Append(upstream, StatsCall("get_downloader_info", outcome, value))
  /\ frame' = [frame EXCEPT !.downloader = downloader]
  /\ ret' = Returned(Summary(frame.stat, frame.storage, downloader))
  /\ pc' = "stats_return"
  /\ UNCHANGED <<engineVars, req, invoked>>

Outcomes(values) ==
  { <<"raise", None>> } \cup { <<"ok", v>> : v \in values }

Api ==
  \/ \E o \in Outcomes(SubscriptionValues) : CheckLookup(o[1], o[2])
  \/ CheckRespond
  \/ PostDispatch
  \/ PostRespond
  \/ \E o \in Outcomes(StatisticValues) : StatsStatistic(o[1], o[2])
  \/ \E o \in Outcomes(InfoValues) : StatsStorage(o[1], o[2])
  \/ \E o \in Outcomes(InfoValues) : StatsDownloader(o[1], o[2])

NextApi == Api \/ NextSub

SpecApi == InitApi /\ [][NextApi]_vars

(***************************************************************************)
(* Properties of the engine.                                               *)
(***************************************************************************)
Range(f) == { f[k] : k \in DOMAIN f }

\* the items whose lookup yields the resolved target code
MatchingItems == { k \in Idx : get_language_for_item(items[k]) = Resolve(lang) }

EngineReturned == pc = "return"

\* C1: for every batch, query and target_count >= 0 the list the engine
\* returns has at most target_count entries.
C1_AtMostTarget ==
  (EngineReturned /\ target_count >= 0) => Len(results) <= target_count

\* C2: with target_count <= 0 or an empty batch the engine returns an empty
\* list and no call of the detail fetcher is ever made.
C2_NoDispatch ==
  (target_count <= 0 \/ N = 0) =>
     /\ \A k \in Idx : fetches[k] = 0
     /\ EngineReturned => results = <<>>

\* C3: once the result holds target_count >= 1 entries no step changes it,
\* whatever completes or is consumed afterwards.
C3_FrozenAfterTarget ==
  [][(target_count >= 1 /\ Len(results) >= target_count) => results' = results]_vars

\* a matching lookup completed after the target was reached and was left out
C3_Witness ==
  /\ EngineReturned
  /\ target_count >= 1
  /\ Len(results) = target_count
  /\ \E k \in Idx : /\ fstate[k] = "finished"
                    /\ k \notin yielded
                    /\ fresult[k] = lang_code

\* C4: the result is ordered by consumption of the completions: every item
\* of the result has been consumed, and the item a step consumes is either
\* left out or put behind all items consumed before it.
C4_CompletionOrder ==
  /\ [](Range(results) \subseteq yielded)
  /\ [][\A k \in Idx : (k \in yielded' /\ k \notin yielded) =>
          (results' = results \/ results' = Append(results, k))]_vars

\* the second item of the batch was consumed first and precedes the first
C4_Witness ==
  /\ EngineReturned
  /\ Len(results) >= 2
  /\ results[1] > results[2]

\* C5: for target_count >= 1 the returned items are distinct items of the
\* batch whose looked-up language is the resolved code, and there are
\* min(target_count, number of matching items) of them.
C5_ResultContent ==
  (EngineReturned /\ target_count >= 1) =>
     /\ \A p \in 1..Len(results) :
          /\ results[p] \in MatchingItems
          /\ stamp[results[p]] = <<Resolve(lang)>>
     /\ \A p, q \in 1..Len(results) : results[p] = results[q] => p = q
     /\ Len(results) = Min(target_count, Cardinality(MatchingItems))

\* fewer items match than were asked for: all of them are returned
C5_Witness ==
  /\ EngineReturned
  /\ target_count >= 2
  /\ Len(results) = 1
  /\ Cardinality(MatchingItems) = 1
  /\ N >= 2

\* C6: at most 5 detail lookups are in flight at any time.
C6_AtMostFiveInFlight == Cardinality(Running) <= 5

\* five lookups run while a sixth task waits in the queue
C6_Witness == Cardinality(Running) = 5 /\ Pending # {}
(***************************************************************************)
(* Properties of the language resolver.                                    *)
(***************************************************************************)
\* c and d are the same letter in either case
SameLetter(c, d) ==
  \/ c = d
  \/ c \in DOMAIN UpperToLower /\ UpperToLower[c] = d
  \/ d \in DOMAIN UpperToLower /\ UpperToLower[d] = c
  \/ /\ c \in DOMAIN UpperToLower
     /\ d \in DOMAIN UpperToLower
     /\ UpperToLower[c] = UpperToLower[d]

\* s and t differ at most in letter case
SameUpToCase(s, t) ==
  /\ Len(s) = Len(t)
  /\ \A k \in 1..Len(s) : SameLetter(s[k], t[k])

Resolved == pc # "enter"

\* C7: the resolved code is the table entry of the lower-cased token when
\* there is one and the lower-cased token otherwise; tokens that differ only
\* in letter case resolve to the same code, and resolving again gives the
\* same code.
C7_Resolve ==
  Resolved =>
     /\ Lower(lang) \in DOMAIN LANGUAGE_MAP => lang_code = LANGUAGE_MAP[Lower(lang)]
     /\ Lower(lang) \notin DOMAIN LANGUAGE_MAP => lang_code = Lower(lang)
     /\ \A t \in Tokens : SameUpToCase(t, lang) => Resolve(t) = lang_code
     /\ Resolve(lang) = lang_code

\* an upper-case spelling of a table key was resolved through the table
C7_Witness ==
  /\ Resolved
  /\ lang = <<"K","O">>
  /\ lang_code = ko
(***************************************************************************)
(* Properties of the hot lists.                                            *)
(***************************************************************************)
\* a language query is given: the lang argument is a non-empty string
LangGiven == req.lang # None /\ req.lang[1] # <<>>

HotListed == pc # "hot_enter"

EngineEntered == pc \notin {"hot_enter", "hot_raise"} /\ LangGiven

\* C8: a hot-list request makes exactly one listing call, for count items
\* and with no detail lookup when no language query is given, for count * 5
\* items and with the engine run on target_count = count when one is given;
\* there is never a second listing call.
C8_OneListing ==
  /\ Len(upstream) <= 1
  /\ HotListed =>
       /\ Len(upstream) = 1
       /\ upstream[1].api = "get_popular_subscribes"
       /\ upstream[1].stype = (IF req.op = "get_hot_tv" THEN TV ELSE MOVIE)
       /\ upstream[1].count = (IF LangGiven THEN req.count * 5 ELSE req.count)
  /\ ~LangGiven => /\ \A k \in Idx : fetches[k] = 0
                   /\ pc \in {"hot_enter", "hot_return", "hot_raise"}
  /\ EngineEntered => target_count = req.count /\ lang = req.lang[1]

\* the filtered list came out shorter than count and nothing was fetched again
C8_Witness ==
  /\ pc = "hot_return"
  /\ LangGiven
  /\ req.count = 2
  /\ Len(ret.value) = 1
  /\ Len(upstream) = 1
(***************************************************************************)
(* Properties of the subscriptions.                                        *)
(***************************************************************************)
\* the upstream calls subscribe_by_tmdbid made, in order
OwnCalls == SelectSeq(upstream, LAMBDA c : c.by = "subscribe_by_tmdbid")

CallsOf(apis) == { k \in 1..Len(OwnCalls) : OwnCalls[k].api \in apis }

SubDone == pc \in {"sub_return", "sub_raise"}

DetailFailed == Len(OwnCalls) >= 1 /\ OwnCalls[1].outcome = "raise"

\* the fallback search failed or returned no result with the wanted id
FallbackFoundNothing ==
  /\ Len(OwnCalls) >= 2
  /\ OwnCalls[2].api = "search_media"
  /\ \/ OwnCalls[2].outcome = "raise"
     \/ \A k \in 1..Len(OwnCalls[2].results) :
           OwnCalls[2].results[k].tmdb_id # frame.tmdbid

SeasonApplies == frame.season # None /\ frame.media_type = TV

\* C9: subscribe_by_tmdbid submits exactly one record, as its last call; it
\* searches the backend exactly when the provider's detail call failed; when
\* that search finds no result with the id, or fails, the record holds only
\* tmdbid and type (and the season when it applies); nothing but the
\* submission itself makes the method raise.
C9_AlwaysSubmits ==
  /\ pc \in {"sub_fallback", "sub_submit"} \/ SubDone =>
       /\ CallsOf({"tmdb.movie_detail", "tmdb.tv_detail"}) = {1}
       /\ OwnCalls[1].tmdb_id = frame.tmdbid
  /\ pc = "sub_submit" \/ SubDone =>
       (CallsOf({"search_media"}) # {} <=> DetailFailed)
  /\ SubDone =>
       /\ CallsOf({"add_subscribe"}) = {Len(OwnCalls)}
       /\ CallsOf({"search_media"}) \subseteq {2}
       /\ pc = "sub_raise" => OwnCalls[Len(OwnCalls)].outcome = "raise"
       /\ (DetailFailed /\ FallbackFoundNothing) =>
            LET data == OwnCalls[Len(OwnCalls)].data IN
            /\ DOMAIN data = {"tmdbid", "type"}
                               \cup (IF SeasonApplies THEN {"season"} ELSE {})
            /\ data.tmdbid = frame.tmdbid
            /\ data.type = frame.media_type
  /\ ~SubDone => CallsOf({"add_subscribe"}) = {}

\* both lookups came back without the title, the bare record was accepted
C9_Witness ==
  /\ pc = "sub_return"
  /\ DetailFailed
  /\ FallbackFoundNothing
  /\ OwnCalls[2].outcome = "ok"
  /\ OwnCalls[2].results # <<>>
  /\ DOMAIN OwnCalls[3].data = {"tmdbid", "type"}

TitleSearched == req.op = "subscribe_by_title" /\ pc # "title_enter"

\* the title search returned nothing usable: no result, or a top result
\* without an id
NothingFound ==
  \/ upstream[1].results = <<>>
  \/ upstream[1].results[1].tmdb_id = 0

KindGiven == req.media_type # None /\ req.media_type[1] # ""

\* C10: when the title search returns no result or a top result without an
\* id, subscribe_by_title makes no subscribe call and returns success =
\* false; whenever the search returns anything else it calls
\* subscribe_by_tmdbid exactly once, with the top result's id and the
\* caller's kind if given, else the top result's.
C10_TitleOutcome ==
  (TitleSearched /\ upstream[1].outcome = "ok") =>
     /\ upstream[1].api = "search_media"
     /\ upstream[1].title = req.title
     /\ NothingFound =>
          /\ pc = "title_return"
          /\ ret.status = "ok"
          /\ ret.value.success = FALSE
          /\ invoked = <<>>
          /\ \A k \in 1..Len(upstream) : upstream[k].api # "add_subscribe"
     /\ ~NothingFound =>
          /\ pc # "title_return"
          /\ Len(invoked) = IF pc = "sub_enter" THEN 0 ELSE 1
          /\ pc = "sub_enter" => frame.tmdbid = upstream[1].results[1].tmdb_id
          /\ Len(invoked) = 1 =>
               LET top == upstream[1].results[1] IN
               /\ invoked[1].tmdbid = top.tmdb_id
               /\ invoked[1].season = req.season
               /\ KindGiven => invoked[1].media_type = req.media_type[1]
               /\ (~KindGiven /\ top.type # None) =>
                     invoked[1].media_type = top.type[1]

\* no kind was given and the top result is a movie: the subscription went
\* through as a movie
C10_Witness ==
  /\ req.op = "subscribe_by_title"
  /\ pc = "sub_return"
  /\ req.media_type = None
  /\ Len(upstream[1].results) = 2
  /\ upstream[1].results[1].type = Some(MOVIE)
  /\ upstream[1].results[2].type = None
  /\ invoked = <<[tmdbid |-> 1, media_type |-> MOVIE, season |-> req.season]>>
\* the record handed to add_subscribe
Submitted == OwnCalls[Len(OwnCalls)].data

\* C11: the submitted record has a season field exactly when the kind is
\* series and the caller passed a season, and then it is that season; a
\* movie record never has one, on any lookup path.
C11_SeasonOnlyForSeries ==
  SubDone =>
     /\ "season" \in DOMAIN Submitted <=>
           (frame.media_type = TV /\ invoked[Len(invoked)].season # None)
     /\ "season" \in DOMAIN Submitted =>
           Submitted.season = invoked[Len(invoked)].season[1]
     /\ frame.media_type = MOVIE => "season" \notin DOMAIN Submitted
     /\ invoked[Len(invoked)].media_type = frame.media_type

\* a movie was subscribed with season 1 after both lookups failed: no season
C11_Witness ==
  /\ pc = "sub_return"
  /\ frame.media_type = MOVIE
  /\ invoked[Len(invoked)].season = Some(1)
  /\ DetailFailed
  /\ OwnCalls[2].outcome = "raise"
  /\ DOMAIN Submitted = {"tmdbid", "type"}
(***************************************************************************)
(* Properties of the endpoints and of get_stats.                           *)
(***************************************************************************)
CheckCalled == req.op = "GET /api/subscribe/check" /\ pc # "check_enter"

\* C12: a failing backend lookup never surfaces: check_subscribe returns
\* None and the endpoint answers 200 {subscribed: false}; the endpoint
\* answers subscribed = true only for a non-empty subscription the backend
\* returned, which it hands on as detail.
C12_CheckNeverFails ==
  CheckCalled =>
     /\ Len(upstream) = 1
     /\ upstream[1].api = "get_subscribe_by_mediaid"
     /\ pc = "check_return" =>
          /\ ret.status = "ok"
          /\ upstream[1].outcome = "raise" => ret.value = None
     /\ pc = "http_done" =>
          /\ ret.code = 200
          /\ upstream[1].outcome = "raise" => ret.body = [subscribed |-> FALSE]
          /\ ret.body.subscribed =>
               /\ upstream[1].outcome = "ok"
               /\ upstream[1].value # None
               /\ upstream[1].value[1] # <<>>
               /\ ret.body.detail = upstream[1].value[1]

\* the backend lookup failed and the endpoint answered subscribed = false
C12_Witness ==
  /\ CheckCalled
  /\ pc = "http_done"
  /\ upstream[1].outcome = "raise"
  /\ ret = Http(200, [subscribed |-> FALSE])

\* the request the endpoint received
HttpRequest == IF "http" \in DOMAIN req THEN req.http ELSE req

NeitherSupplied ==
  /\ HttpRequest.op = "POST /api/subscribe"
  /\ HttpRequest.tmdb_id = None
  /\ HttpRequest.title = None

\* C13: a subscribe request with neither tmdb_id nor title is answered 400,
\* not 500, and no upstream call is made for it at any time.
C13_NeitherIs400 ==
  NeitherSupplied =>
     /\ upstream = <<>>
     /\ invoked = <<>>
     /\ pc \in {"post_enter", "http_done"}
     /\ pc = "http_done" => ret.status = "http" /\ ret.code = 400

\* the request without id and title has been rejected
C13_Witness ==
  /\ NeitherSupplied
  /\ pc = "http_done"
  /\ ret.code = 400
  /\ upstream = <<>>

StatsCalled == req.op = "get_stats" /\ pc # "stats_enter"

StatsDone == pc \in {"stats_return", "stats_raise"}

\* the part of the summary an optional call stands for
OptionalPart(call) == IF call.outcome = "raise" THEN None ELSE call.value

\* C14: get_stats raises exactly when get_statistic raises; a failure of
\* get_storage or get_downloader_info leaves that part of the summary null,
\* the other optional call is still made and the summary is returned.
C14_StatsOptionalCalls ==
  StatsCalled =>
     /\ upstream[1].api = "get_statistic"
     /\ pc = "stats_raise" <=> upstream[1].outcome = "raise"
     /\ upstream[1].outcome = "raise" => Len(upstream) = 1 /\ ret = Raised
     /\ (StatsDone /\ upstream[1].outcome = "ok") =>
          /\ pc = "stats_return"
          /\ Len(upstream) = 3
          /\ upstream[2].api = "get_storage"
          /\ upstream[3].api = "get_downloader_info"
          /\ ret.status = "ok"
          /\ ret.value.storage = OptionalPart(upstream[2])
          /\ ret.value.downloader = OptionalPart(upstream[3])

\* the storage call failed, the downloader call was made and answered, and
\* the summary came back with a null storage
C14_Witness ==
  /\ StatsCalled
  /\ pc = "stats_return"
  /\ upstream[2].outcome = "raise"
  /\ upstream[3].outcome = "ok"
  /\ ret.value.storage = None
  /\ ret.value.downloader # None
(***************************************************************************)
(* Further properties of the engine.                                       *)
(***************************************************************************)
\* C15: an item whose lookup failed (the fetcher gave the empty string) is
\* never in the result, whatever the query, and no item is looked up more
\* than once in a run.
C15_FailedNeverReturned ==
  /\ \A k \in Idx : fetches[k] <= 1
  /\ \A p \in 1..Len(results) : get_language_for_item(items[results[p]]) # <<>>

\* a pool task makes its step on item k
TaskStep(k) == fstate[k] = "running" /\ fstate'[k] = "finished"

\* the calling thread consumes the completion of item k
ConsumeStep(k) == pc = "as_completed" /\ k \notin yielded /\ k \in yielded'

\* C16 as claimed: every item's stamp is written exactly once in a run, by
\* the task that owns the item.
C16_StampedByOwnTask ==
  /\ [](EngineReturned => \A k \in Idx : stamp[k] # <<>>)
  /\ [][\A k \in Idx : stamp'[k] # stamp[k] => TaskStep(k)]_vars

\* C16 as amended: an item's stamp is written at most once, by the calling
\* thread in the iteration that consumes the item's completion, and the
\* items stamped are the items consumed; no pool task writes a stamp, so no
\* two threads write the same one; only such an iteration appends to the
\* result.
C16_StampedByConsumer ==
  /\ [](\A k \in Idx : stamp[k] # <<>> <=> k \in yielded)
  /\ [][\A k \in Idx : stamp'[k] # stamp[k] =>
          /\ ConsumeStep(k)
          /\ stamp[k] = <<>>
          /\ stamp'[k] = <<fresult[k]>>
          /\ \A j \in Idx \ {k} : stamp'[j] = stamp[j]]_vars
  /\ [][results' # results =>
          \E k \in Idx : ConsumeStep(k) /\ results' = Append(results, k)]_vars

\* the run is over: one item was consumed and stamped, another finished its
\* lookup and was never stamped
C16_Witness ==
  /\ EngineReturned
  /\ \E k \in Idx : stamp[k] # <<>>
  /\ \E k \in Idx : fstate[k] = "finished" /\ stamp[k] = <<>>

\* C17: every run of the engine returns.
C17_Returns == <>EngineReturned

\* the target was reached with more tasks than threads: a run that left a
\* lookup unconsumed and a queued task cancelled has returned
C17_Witness ==
  /\ EngineReturned
  /\ N > max_workers
  /\ \E k \in Idx : fstate[k] = "cancelled"
  /\ \E k \in Idx : fstate[k] = "finished" /\ k \notin yielded

\* C18: once the engine has returned every task is finished or cancelled, a
\* cancelled task made no lookup, and no lookup starts or ends afterwards.
C18_NoResidue ==
  /\ [](EngineReturned =>
          /\ Running = {}
          /\ \A k \in Idx : /\ fstate[k] \in {"finished", "cancelled"}
                            /\ fstate[k] = "cancelled" => fetches[k] = 0
                            /\ fstate[k] = "finished" => fetches[k] = 1)
  /\ [][EngineReturned => fetches' = fetches /\ fstate' = fstate]_vars

\* the return waited for a lookup that started after the target was reached
\* and another task was cancelled in the queue
C18_Witness ==
  /\ EngineReturned
  /\ target_count = 1
  /\ Len(results) = 1
  /\ \E k \in Idx : fstate[k] = "cancelled" /\ fetches[k] = 0
  /\ \E k \in Idx : fstate[k] = "finished" /\ fetches[k] = 1 /\ k \notin yielded
====
